---- MODULE Spec2Model ----
(***************************************************************************)
(* Model of splitSegments2.py: the score timeline (get_precise_split_points),*)
(* the tempo map (build_tempo_map, time_to_ticks_with_tempo_map), the two   *)
(* splitters (split_musicxml, split_midi) and the batch loop                *)
(* (process_directory).                                                     *)
(*                                                                          *)
(* Times are held in microseconds (seconds * 1e6) as integers.  Every value *)
(* the model draws is a multiple of 0.125 s and every tempo a power-of-two  *)
(* multiple of 250000, so the floating-point operations of the source are   *)
(* exact on them and integer arithmetic reproduces them.  msg.time of the   *)
(* iterated file is read as a tick count, as line 52 names it.              *)
(***************************************************************************)
EXTENDS Integers, Sequences, FiniteSets, TLC

VARIABLES pc, midi_file, tempo_map, times, ticks,
          split_times, split_points_ticks, segments, saved,
          score, measures_per_segment, split_points, excerpts, written,
          listing, idx, run, dirs, files, log

vars == <<pc, midi_file, tempo_map, times, ticks,
          split_times, split_points_ticks, segments, saved,
          score, measures_per_segment, split_points, excerpts, written,
          listing, idx, run, dirs, files, log>>

tempoVars == <<midi_file, tempo_map, times, ticks>>
midiVars  == <<split_times, split_points_ticks, segments, saved>>
scoreVars == <<score, measures_per_segment, split_points, excerpts, written>>
dirVars   == <<listing, idx, run, dirs, files>>

---------------------------------------------------------------------------
(* Bounds and value sets *)

MaxMsgs == 3            \* messages per track
MaxMeasures == 4        \* measures per part
MaxPairs == 2           \* files in the directory listing
MaxRuns == 2            \* runs of process_directory

Quantum == 1000000 \div 8 \* 0.125 s, the grid of the times drawn
Deltas == {0, 1, 2}      \* delta times (ticks) of a message
QueryGrid == 0..8       \* query times, in quanta
Tempos == {250000, 500000, 1000000}
TicksPerBeatValues == {2}
None == 0 - 1           \* Python's None (no tempo, no measure number): no value of the model is negative

Max(a, b) == IF a >= b THEN a ELSE b
Min(a, b) == IF a <= b THEN a ELSE b

SeqsUpTo(S, n) == UNION {[1..m -> S] : m \in 0..n}

RECURSIVE SumSeq(_)
SumSeq(s) == IF s = <<>> THEN 0 ELSE Head(s) + SumSeq(Tail(s))

\* int(): the quotient num/den (den > 0) rounded toward zero
IntTrunc(num, den) ==
  IF num >= 0 THEN num \div den ELSE -((-num) \div den)

---------------------------------------------------------------------------
(* The performed timeline: a file is [ticks_per_beat, tracks]; a track is a *)
(* sequence of messages [time (delta ticks), type, tempo, id].              *)

DefaultTempo == 500000

Note(d, n) == [time |-> d, type |-> "note_on", tempo |-> 0, id |-> n]
SetTempo(d, t) == [time |-> d, type |-> "set_tempo", tempo |-> t, id |-> 0]

MessageSet == {Note(d, 1) : d \in Deltas}
              \cup {SetTempo(d, t) : d \in Deltas, t \in Tempos}

\* abs_tick += msg.time; messages.append((abs_tick, msg))
RECURSIVE AbsFrom(_, _, _)
AbsFrom(track, i, abs_tick) ==
  IF i > Len(track) THEN <<>>
  ELSE <<[abs |-> abs_tick + track[i].time, msg |-> track[i]]>>
       \o AbsFrom(track, i + 1, abs_tick + track[i].time)

AbsMessages(track) == AbsFrom(track, 1, 0)

\* stable merge by absolute tick: on a tie the earlier track's message first
RECURSIVE Merge2(_, _)
Merge2(a, b) ==
  IF a = <<>> THEN b
  ELSE IF b = <<>> THEN a
  ELSE IF Head(a).abs <= Head(b).abs
       THEN <<Head(a)>> \o Merge2(Tail(a), b)
       ELSE <<Head(b)>> \o Merge2(a, Tail(b))

RECURSIVE MergeAll(_, _)
MergeAll(tracks, i) ==
  IF i > Len(tracks) THEN <<>>
  ELSE Merge2(AbsMessages(tracks[i]), MergeAll(tracks, i + 1))

\* "for msg in midi_file": the tracks merged in position order, delta-encoded
Iterate(file) ==
  LET m == MergeAll(file.tracks, 1)
  IN [i \in 1..Len(m) |->
        [m[i].msg EXCEPT !.time = m[i].abs - (IF i = 1 THEN 0 ELSE m[i-1].abs)]]

---------------------------------------------------------------------------
(* build_tempo_map *)

RECURSIVE BuildFrom(_, _, _, _, _, _)
BuildFrom(msgs, i, tpb, cumulative_ticks, cumulative_time, current_tempo) ==
  IF i > Len(msgs)
  THEN <<[tick |-> cumulative_ticks, tempo |-> current_tempo, time |-> cumulative_time]>>
  ELSE LET msg == msgs[i]
           t2 == cumulative_ticks + msg.time
           s2 == cumulative_time + (msg.time * current_tempo) \div tpb
       IN IF msg.type = "set_tempo"
          THEN <<[tick |-> t2, tempo |-> current_tempo, time |-> s2]>>
               \o BuildFrom(msgs, i + 1, tpb, t2, s2, msg.tempo)
          ELSE BuildFrom(msgs, i + 1, tpb, t2, s2, current_tempo)

build_tempo_map(file) ==
  BuildFrom(Iterate(file), 1, file.ticks_per_beat, 0, 0, DefaultTempo)

(* time_to_ticks_with_tempo_map *)

\* int(cumulative_ticks + time_diff * ticks_per_beat * 1e6 / last_tempo)
Interpolate(time, cumulative_time, cumulative_ticks, last_tempo, tpb) ==
  IntTrunc(cumulative_ticks * last_tempo + (time - cumulative_time) * tpb, last_tempo)

RECURSIVE ScanMap(_, _, _, _, _, _, _)
ScanMap(time, map, i, cumulative_time, cumulative_ticks, last_tempo, tpb) ==
  IF i > Len(map)
  THEN Interpolate(time, cumulative_time, cumulative_ticks, last_tempo, tpb)
  ELSE IF time < map[i].time
       THEN Interpolate(time, cumulative_time, cumulative_ticks, last_tempo, tpb)
       ELSE ScanMap(time, map, i + 1, map[i].time, map[i].tick, map[i].tempo, tpb)

time_to_ticks_with_tempo_map(time, map, tpb) ==
  ScanMap(time, map, 1, 0, 0, map[1].tempo, tpb)

---------------------------------------------------------------------------
(* Conversion on its own: a file is drawn, its tempo map built, and two    *)
(* times t1 <= t2 converted.                                               *)

NoFile == [ticks_per_beat |-> 0, tracks |-> <<>>]

TempoIdle ==
  /\ midi_file = NoFile /\ tempo_map = <<>> /\ times = <<>> /\ ticks = <<>>
MidiIdle ==
  /\ split_times = <<>> /\ split_points_ticks = <<>> /\ segments = <<>> /\ saved = <<>>

TempoInit ==
  /\ pc = "load"
  /\ midi_file \in [ticks_per_beat : TicksPerBeatValues,
                    tracks : {<<t>> : t \in SeqsUpTo(MessageSet, MaxMsgs)}]
  /\ tempo_map = <<>> /\ times = <<>> /\ ticks = <<>>
  /\ MidiIdle

BuildTempoMap ==
  /\ pc = "load"
  /\ tempo_map' = build_tempo_map(midi_file)
  /\ pc' = "built"
  /\ UNCHANGED <<midi_file, times, ticks, midiVars, scoreVars, dirVars, log>>

Convert ==
  /\ pc = "built"
  /\ \E q1 \in QueryGrid : \E q2 \in {q \in QueryGrid : q >= q1} :
       /\ times' = <<q1 * Quantum, q2 * Quantum>>
       /\ ticks' = <<time_to_ticks_with_tempo_map(q1 * Quantum, tempo_map, midi_file.ticks_per_beat),
                     time_to_ticks_with_tempo_map(q2 * Quantum, tempo_map, midi_file.ticks_per_beat)>>
  /\ pc' = "converted"
  /\ UNCHANGED <<midi_file, tempo_map, midiVars, scoreVars, dirVars, log>>

ScoreIdle ==
  /\ score = <<>> /\ measures_per_segment = 0 /\ split_points = <<>>
  /\ excerpts = <<>> /\ written = {}
DirIdle ==
  /\ listing = <<>> /\ idx = 0 /\ run = 0 /\ dirs = {} /\ files = {}

InitTempo == TempoInit /\ ScoreIdle /\ DirIdle /\ log = <<>>

NextTempo == BuildTempoMap \/ Convert

SpecTempo == InitTempo /\ [][NextTempo]_vars

\* The stream's own timeline, tick by tick: the tempo in force just after
\* position p is that of the last set_tempo at or before p.
TempoAfter(m, p) ==
  LET S == {i \in 1..Len(m) : m[i].msg.type = "set_tempo" /\ m[i].abs <= p}
  IN IF S = {} THEN DefaultTempo
     ELSE m[CHOOSE i \in S : \A j \in S : j <= i].msg.tempo

RECURSIVE RealTimeAt(_, _)
RealTimeAt(file, p) ==
  IF p = 0 THEN 0
  ELSE RealTimeAt(file, p - 1)
       + TempoAfter(MergeAll(file.tracks, 1), p - 1) \div file.ticks_per_beat

EndTick(file) ==
  LET m == MergeAll(file.tracks, 1) IN IF m = <<>> THEN 0 ELSE m[Len(m)].abs

\* the whole tick at which the stream's cumulative real time first reaches t
FirstReach(file, t) ==
  CHOOSE p \in 0..EndTick(file) :
    /\ RealTimeAt(file, p) <= t
    /\ \A r \in 0..EndTick(file) : RealTimeAt(file, r) <= t => r <= p

HasTempoChange(file) ==
  \E k \in 1..Len(file.tracks) : \E i \in 1..Len(file.tracks[k]) :
     file.tracks[k][i].type = "set_tempo"

\* C1: TimeToPosition is monotonic: for a map built by build_tempo_map and
\* t1 <= t2, time_to_ticks_with_tempo_map(t1) <= time_to_ticks_with_tempo_map(t2).
C1_Monotonic ==
  pc = "converted" => (times[1] <= times[2] => ticks[1] <= ticks[2])

\* C2: for a stream with tempo-change events and every t from 0 to the
\* stream's end time, time_to_ticks_with_tempo_map(t) is the tick (rounded
\* toward zero) at which the stream's cumulative real time first reaches t.
C2_FirstReach ==
  (pc = "converted" /\ HasTempoChange(midi_file)) =>
    \A j \in 1..2 :
      times[j] <= RealTimeAt(midi_file, EndTick(midi_file))
        => ticks[j] = FirstReach(midi_file, times[j])

---------------------------------------------------------------------------
(* split_midi *)

EndOfTrack == [time |-> 0, type |-> "end_of_track", tempo |-> 0, id |-> 0]

\* sorted(set(split_times))
RECURSIVE SortSet(_)
SortSet(S) ==
  IF S = {} THEN <<>>
  ELSE LET m == CHOOSE x \in S : \A y \in S : x <= y
       IN <<m>> \o SortSet(S \ {m})

SortedUnique(seq) == SortSet({seq[i] : i \in 1..Len(seq)})

\* lines 136-143: the relative offset given to messages[msg_index]; n is
\* len(segment_msgs) before the append
DeltaTimeNoStart(messages, msg_index, segment_start_tick, n) ==
  Max(IF n = 0 THEN messages[msg_index].abs
      ELSE messages[msg_index].abs - messages[msg_index - 1].abs, 0)

DeltaTime(messages, msg_index, segment_start_tick, n) ==
  Max(IF n = 0 THEN messages[msg_index].abs - segment_start_tick
      ELSE messages[msg_index].abs - messages[msg_index - 1].abs, 0)

\* the while loop of lines 133-146
RECURSIVE InnerWhile(_, _, _, _, _)
InnerWhile(messages, msg_index, segment_start_tick, segment_end_tick, segment_msgs) ==
  IF msg_index <= Len(messages) /\ messages[msg_index].abs < segment_end_tick
  THEN InnerWhile(messages, msg_index + 1, segment_start_tick, segment_end_tick,
         Append(segment_msgs,
                [messages[msg_index].msg EXCEPT
                   !.time = DeltaTime(messages, msg_index, segment_start_tick,
                                      Len(segment_msgs))]))
  ELSE [msgs |-> segment_msgs, next |-> msg_index]

\* one track over all segments (lines 126-146): its message list per segment
RECURSIVE AssignTrack(_, _, _, _)
AssignTrack(messages, pts, segment_index, msg_index) ==
  IF segment_index > Len(pts) - 1 THEN <<>>
  ELSE LET r == InnerWhile(messages, msg_index, pts[segment_index],
                           pts[segment_index + 1], <<>>)
       IN <<r.msgs>> \o AssignTrack(messages, pts, segment_index + 1, r.next)

SplitPointsTicks(file, stimes) ==
  LET st == SortedUnique(stimes)
      map == build_tempo_map(file)
  IN [i \in 1..Len(st) |->
        time_to_ticks_with_tempo_map(st[i], map, file.ticks_per_beat)]

\* segments[segment][track], lines 112-146
SegmentsOf(file, pts) ==
  LET perTrack == [t \in 1..Len(file.tracks) |->
                     AssignTrack(AbsMessages(file.tracks[t]), pts, 1, 1)]
  IN [s \in 1..(Len(pts) - 1) |-> [t \in 1..Len(file.tracks) |-> perTrack[t][s]]]

\* lines 148-159: every segment is written, each track closed by end_of_track
SavedFiles(segs) ==
  [n \in 1..Len(segs) |-> [t \in 1..Len(segs[n]) |-> Append(segs[n][t], EndOfTrack)]]

SavedLog(segs) == [n \in 1..Len(segs) |-> [kind |-> "Saved", name |-> n]]

MidiTempos == {1000000}
MidiMessageSet == {Note(d, 1) : d \in Deltas}
                  \cup {SetTempo(d, t) : d \in Deltas, t \in MidiTempos}
SecondTracks == {<<>>, <<Note(1, 2)>>, <<Note(0, 2), Note(2, 2)>>}
SplitGrid == {0, 2, 4, 6, 8}

\* what get_precise_split_points returns: 0, then non-decreasing times
SplitLists ==
  {<<0, a * Quantum>> : a \in SplitGrid}
  \cup {<<0, p[1] * Quantum, p[2] * Quantum>> :
          p \in {q \in SplitGrid \X SplitGrid : q[1] <= q[2]}}

MidiInit ==
  /\ pc = "start"
  /\ \E t0 \in SeqsUpTo(MidiMessageSet, MaxMsgs) :
       midi_file \in [ticks_per_beat : TicksPerBeatValues,
                      tracks : {<<t0>>} \cup {<<t0, t1>> : t1 \in SecondTracks}]
  /\ split_times \in SplitLists
  /\ tempo_map = <<>> /\ times = <<>> /\ ticks = <<>>
  /\ split_points_ticks = <<>> /\ segments = <<>> /\ saved = <<>>

InitMidi == MidiInit /\ ScoreIdle /\ DirIdle /\ log = <<>>

SplitMidi ==
  /\ pc = "start"
  /\ LET pts == SplitPointsTicks(midi_file, split_times)
         segs == SegmentsOf(midi_file, pts)
     IN /\ split_points_ticks' = pts
        /\ segments' = segs
        /\ saved' = SavedFiles(segs)
        /\ log' = log \o SavedLog(segs)
  /\ tempo_map' = build_tempo_map(midi_file)
  /\ pc' = "done"
  /\ UNCHANGED <<midi_file, times, ticks, split_times, scoreVars, dirVars>>

NextMidi == SplitMidi

SpecMidi == InitMidi /\ [][NextMidi]_vars

NonDecreasing(seq) == \A i \in 1..(Len(seq) - 1) : seq[i] <= seq[i + 1]

\* number of the track's messages assigned to the segments before s
Before(s, t) == SumSeq([r \in 1..(s - 1) |-> Len(segments[r][t])])

\* absolute position rebuilt from the segment start and the stored offsets
Rebuilt(s, t, j) ==
  split_points_ticks[s] + SumSeq([i \in 1..j |-> segments[s][t][i].time])

NoTime(msg) == [type |-> msg.type, tempo |-> msg.tempo, id |-> msg.id]

RECURSIVE RebuiltTrack(_, _)
RebuiltTrack(s, t) ==
  IF s > Len(segments) THEN <<>>
  ELSE [j \in 1..Len(segments[s][t]) |->
          [abs |-> Rebuilt(s, t, j), msg |-> NoTime(segments[s][t][j])]]
       \o RebuiltTrack(s + 1, t)

OriginalTrack(t) ==
  LET m == AbsMessages(midi_file.tracks[t])
  IN [i \in 1..Len(m) |-> [abs |-> m[i].abs, msg |-> NoTime(m[i].msg)]]

\* C3: round-trip coverage: for every track, the segments' events in segment
\* order, with absolute positions rebuilt from segment start and offsets,
\* are the track's original events and positions (none lost or duplicated).
C3_RoundTrip ==
  pc = "done" =>
    \A t \in 1..Len(midi_file.tracks) : RebuiltTrack(1, t) = OriginalTrack(t)

\* C5: a segment whose every channel list is empty is reported and not
\* written; only segments holding an event on some channel are saved.
C5_EmptyOmitted ==
  pc = "done" =>
    \A s \in 1..Len(segments) :
      (\A t \in 1..Len(segments[s]) : segments[s][t] = <<>>)
        => /\ s \notin DOMAIN saved
           /\ \E i \in 1..Len(log) : log[i].kind = "EmptySegment" /\ log[i].name = s

\* C9: with non-decreasing split positions, the first event of a segment has
\* offset (absolute position - segment start), each later one the difference
\* from the previous event of its channel; segment start plus the prefix sum
\* of offsets is the event's original position, and no offset is clamped.
C9_DeltaEncoding ==
  (pc = "done" /\ NonDecreasing(split_points_ticks)) =>
    \A s \in 1..Len(segments) : \A t \in 1..Len(segments[s]) :
      \A j \in 1..Len(segments[s][t]) :
        LET m == AbsMessages(midi_file.tracks[t])
            g == Before(s, t) + j
            raw == IF j = 1 THEN m[g].abs - split_points_ticks[s]
                   ELSE m[g].abs - m[g - 1].abs
        IN /\ NoTime(segments[s][t][j]) = NoTime(m[g].msg)
           /\ segments[s][t][j].time = raw
           /\ raw >= 0
           /\ Rebuilt(s, t, j) = m[g].abs

\* a second segment that starts after position 0 and holds two events of one
\* channel, the first of them after the segment start
C9_Witness ==
  /\ pc = "done" /\ NonDecreasing(split_points_ticks)
  /\ Len(segments) >= 2
  /\ split_points_ticks[2] > 0
  /\ \E t \in 1..Len(segments[2]) :
       /\ Len(segments[2][t]) >= 2
       /\ segments[2][t][1].time > 0
       /\ segments[2][t][2].time > 0

---------------------------------------------------------------------------
(* The notated score: [parts, marks, has2048]; a part is a sequence of      *)
(* measures [measureNumber, offset, quarterLength]; marks are the            *)
(* MetronomeMarks [offset, bpm] in document order, bpm possibly None.        *)

default_tempo == 120

QLValues == {0, 1, 2}
PartCounts == {1, 2}
SegmentSizes == {1, 2, 3}
Mark(o, b) == [offset |-> o, bpm |-> b]
MarkLists == {<<>>, <<Mark(0, 60)>>, <<Mark(2, 240)>>, <<Mark(0, None)>>,
              <<Mark(2, 240), Mark(0, 60)>>, <<Mark(0, 60), Mark(0, 240)>>}

\* a part from its measures' durations: numbered 1..n, offsets cumulative
PartOf(d) ==
  [i \in 1..Len(d) |->
     [measureNumber |-> i,
      offset |-> SumSeq(SubSeq(d, 1, i - 1)),
      quarterLength |-> d[i]]]

ScoreOf(d, nparts, marks, flag) ==
  [parts |-> [q \in 1..nparts |-> PartOf(d)], marks |-> marks, has2048 |-> flag]

\* list(score.recurse().getElementsByClass('Measure')): every part's measures
RECURSIVE MeasuresFrom(_, _)
MeasuresFrom(parts, q) ==
  IF q > Len(parts) THEN <<>> ELSE parts[q] \o MeasuresFrom(parts, q + 1)

Measures(sc) == MeasuresFrom(sc.parts, 1)

\* tempo_changes.sort(key=lambda x: x.offset): a stable sort
RECURSIVE SortByOffset(_)
SortByOffset(seq) ==
  IF seq = <<>> THEN <<>>
  ELSE LET front == SortByOffset(SubSeq(seq, 1, Len(seq) - 1))
           x == seq[Len(seq)]
           k == Cardinality({i \in 1..Len(front) : front[i].offset <= x.offset})
       IN SubSeq(front, 1, k) \o <<x>> \o SubSeq(front, k + 1, Len(front))

TempoChanges(sc) == SortByOffset(sc.marks)

\* the while loop of lines 25-29 and 190-194 (tempo_index is 1-based here)
RECURSIVE AdvanceTempo(_, _, _, _)
AdvanceTempo(tc, tempo_index, offset, current_tempo) ==
  IF tempo_index <= Len(tc) /\ tc[tempo_index].offset <= offset
  THEN AdvanceTempo(tc, tempo_index + 1, offset,
                    IF tc[tempo_index].bpm # None THEN tc[tempo_index].bpm
                    ELSE current_tempo)
  ELSE [tempo |-> current_tempo, index |-> tempo_index]

\* (60 / current_tempo) * measure_duration_beats, in microseconds
MeasureSeconds(current_tempo, beats) == (60000000 \div current_tempo) * beats

\* line 31, with i the 0-based index of the measure
IsSplitIndexNoGuard(i, k) == i % k = 0

IsSplitIndex(i, k) == i % k = 0 /\ i > 0

RECURSIVE WalkMeasures(_, _, _, _, _, _, _, _)
WalkMeasures(measures, tc, i, k, tempo_index, current_tempo, current_time, sp) ==
  IF i >= Len(measures) THEN Append(sp, current_time)
  ELSE LET a == AdvanceTempo(tc, tempo_index, measures[i + 1].offset, current_tempo)
           sp2 == IF IsSplitIndex(i, k) THEN Append(sp, current_time) ELSE sp
       IN WalkMeasures(measures, tc, i + 1, k, a.index, a.tempo,
                       current_time + MeasureSeconds(a.tempo, measures[i + 1].quarterLength),
                       sp2)

get_precise_split_points(sc, k) ==
  WalkMeasures(Measures(sc), TempoChanges(sc), 0, k, 1, default_tempo, 0, <<0>>)

(* split_musicxml *)

\* the for loop of lines 188-206 for one segment
RECURSIVE FindRange(_, _, _, _, _, _, _, _, _)
FindRange(measures, tc, m, tempo_index, current_tempo, current_time, start_time, end_time, start_measure) ==
  IF m > Len(measures) THEN [start |-> start_measure, end |-> None]
  ELSE LET a == AdvanceTempo(tc, tempo_index, measures[m].offset, current_tempo)
           st == IF start_measure = None /\ current_time >= start_time
                 THEN measures[m].measureNumber ELSE start_measure
       IN IF current_time >= end_time
          THEN [start |-> st, end |-> measures[m].measureNumber - 1]
          ELSE FindRange(measures, tc, m + 1, a.index, a.tempo,
                         current_time + MeasureSeconds(a.tempo, measures[m].quarterLength),
                         start_time, end_time, st)

\* lines 178-209: the measure range of segment i (1-based)
SegmentRange(sc, sp, i) ==
  LET r == FindRange(Measures(sc), TempoChanges(sc), 1, 1, default_tempo, 0,
                     sp[i], sp[i + 1], None)
      ms == Measures(sc)
  IN IF r.end = None THEN [r EXCEPT !.end = ms[Len(ms)].measureNumber] ELSE r

\* the outcome of split_musicxml when the writer fails on segment fail
\* (0: on none): raised (measures[-1] of an empty list), the ranges sliced,
\* the files written and the lines printed
split_musicxml(sc, sp, fail) ==
  IF sc.has2048
  THEN [raised |-> FALSE, excerpts |-> <<>>, written |-> {},
        log |-> <<[kind |-> "Warning2048", name |-> 0]>>]
  ELSE IF Measures(sc) = <<>>
  THEN [raised |-> TRUE, excerpts |-> <<>>, written |-> {}, log |-> <<>>]
  ELSE [raised |-> FALSE,
        excerpts |-> [i \in 1..(Len(sp) - 1) |-> SegmentRange(sc, sp, i)],
        written |-> (1..(Len(sp) - 1)) \ {fail},
        log |-> (IF fail \in 1..(Len(sp) - 1)
                 THEN <<[kind |-> "ErrorWriting", name |-> fail]>> ELSE <<>>)
                \o <<[kind |-> "FinishedScore", name |-> 0]>>]

ScoreInit ==
  /\ pc = "start"
  /\ \E d \in SeqsUpTo(QLValues, MaxMeasures) : \E n \in PartCounts :
       \E marks \in MarkLists : \E flag \in BOOLEAN :
         score = ScoreOf(d, n, marks, flag)
  /\ measures_per_segment \in SegmentSizes
  /\ split_points = <<>> /\ excerpts = <<>> /\ written = {}

InitScore == ScoreInit /\ TempoIdle /\ MidiIdle /\ DirIdle /\ log = <<>>

GetSplitPoints ==
  /\ pc = "start"
  /\ split_points' = get_precise_split_points(score, measures_per_segment)
  /\ pc' = "points"
  /\ UNCHANGED <<score, measures_per_segment, excerpts, written,
                 tempoVars, midiVars, dirVars, log>>

SplitMusicXML ==
  /\ pc = "points"
  /\ \E fail \in 0..(Len(split_points) - 1) :
       LET r == split_musicxml(score, split_points, fail)
       IN /\ excerpts' = r.excerpts
          /\ written' = r.written
          /\ log' = log \o r.log
          /\ pc' = IF r.raised THEN "error" ELSE "done"
  /\ UNCHANGED <<score, measures_per_segment, split_points,
                 tempoVars, midiVars, dirVars>>

NextScore == GetSplitPoints \/ SplitMusicXML

SpecScore == InitScore /\ [][NextScore]_vars

\* Reference timeline of a single part: the tempo of measure i is the last
\* non-None mark, in sorted order, at or before its offset.
RefTempo(sc, i) ==
  LET tc == TempoChanges(sc)
      S == {j \in 1..Len(tc) : tc[j].offset <= sc.parts[1][i].offset /\ tc[j].bpm # None}
  IN IF S = {} THEN default_tempo
     ELSE tc[CHOOSE j \in S : \A h \in S : h <= j].bpm

Boundary(sc, m) ==
  SumSeq([i \in 1..m |-> MeasureSeconds(RefTempo(sc, i), sc.parts[1][i].quarterLength)])

CeilDiv(n, k) == (n + k - 1) \div k

SinglePartPositive(sc) ==
  /\ Len(sc.parts) = 1
  /\ Len(sc.parts[1]) >= 1
  /\ \A i \in 1..Len(sc.parts[1]) : sc.parts[1][i].quarterLength > 0

PrimaryOnly(sc) == [sc EXCEPT !.parts = <<sc.parts[1]>>]

\* C7: with more than one part, split points and measure ranges are those of
\* the primary part alone (the same score with every other part removed).
C7_PrimaryPartOnly ==
  (pc \in {"points", "done"} /\ Len(score.parts) > 1) =>
     /\ split_points = get_precise_split_points(PrimaryOnly(score), measures_per_segment)
     /\ (pc = "done" /\ ~score.has2048) =>
          excerpts = split_musicxml(PrimaryOnly(score),
                        get_precise_split_points(PrimaryOnly(score), measures_per_segment),
                        0).excerpts

---------------------------------------------------------------------------
(* process_directory.  A listed pair is [score, midi]: the score file      *)
(* [corrupt, score] and the MIDI file [present, corrupt, file] of the same  *)
(* base name; the pair's name is its place in the listing.  dirs holds the  *)
(* output subdirectories <<kind, name>>, files the segments written         *)
(* <<kind, name, number>>.                                                  *)

DefaultMeasuresPerSegment == 4

ScoreFile(c, sc) == [corrupt |-> c, score |-> sc]
MidiFile(p, c, f) == [present |-> p, corrupt |-> c, file |-> f]

PlainMidi == [ticks_per_beat |-> 2,
              tracks |-> <<<<Note(1, 1), Note(2, 1), Note(2, 1)>>>>]

ScoreCatalogue ==
  {ScoreFile(FALSE, ScoreOf(<<1, 1, 1, 1, 1>>, 1, <<>>, FALSE)),
   ScoreFile(FALSE, ScoreOf(<<1, 1, 1, 1, 0>>, 1, <<>>, FALSE)),
   ScoreFile(FALSE, ScoreOf(<<1, 1>>, 1, <<>>, TRUE)),
   ScoreFile(FALSE, ScoreOf(<<>>, 1, <<>>, FALSE)),
   ScoreFile(TRUE, ScoreOf(<<>>, 1, <<>>, FALSE))}

MidiCatalogue ==
  {MidiFile(TRUE, FALSE, PlainMidi), MidiFile(TRUE, TRUE, NoFile),
   MidiFile(FALSE, FALSE, NoFile)}

PairSet == [score : ScoreCatalogue, midi : MidiCatalogue]

Entry(k, n, r) == [kind |-> k, name |-> n, run |-> r]
Retag(lg, n, r) == [i \in 1..Len(lg) |-> Entry(lg[i].kind, n, r)]

\* lines 260-263, the body of the try: the error raised ("" when none), the
\* segment numbers written by each splitter and the lines they print
TryBody(pair, fail) ==
  IF pair.score.corrupt
  THEN [error |-> "ParseError", xml |-> {}, midi |-> {}, log |-> <<>>]
  ELSE LET sp == get_precise_split_points(pair.score.score, DefaultMeasuresPerSegment)
           x == split_musicxml(pair.score.score, sp, fail)
       IN IF x.raised
          THEN [error |-> "IndexError", xml |-> x.written, midi |-> {}, log |-> x.log]
          ELSE IF pair.midi.corrupt
          THEN [error |-> "MidiError", xml |-> x.written, midi |-> {}, log |-> x.log]
          ELSE LET segs == SegmentsOf(pair.midi.file, SplitPointsTicks(pair.midi.file, sp))
               IN [error |-> "", xml |-> x.written, midi |-> DOMAIN SavedFiles(segs),
                   log |-> x.log \o SavedLog(segs)]

\* how many writer outcomes the pair has: a failure on any one segment, or none
WriteChoices(pair) ==
  IF pair.score.corrupt THEN {0}
  ELSE 0..(Len(get_precise_split_points(pair.score.score, DefaultMeasuresPerSegment)) - 1)

\* "except Exception": every error of the try body is caught
CaughtParseOnly(error) == error = "ParseError"

Caught(error) == TRUE

\* lines 251-253: both output subdirectories exist
AlreadyExist(name) == <<"xml", name>> \in dirs /\ <<"midi", name>> \in dirs

DirInit ==
  /\ pc = "idle"
  /\ listing \in UNION {[1..n -> PairSet] : n \in 1..MaxPairs}
  /\ idx = 0 /\ run = 0 /\ dirs = {} /\ files = {}

InitDir == DirInit /\ TempoIdle /\ MidiIdle /\ ScoreIdle /\ log = <<>>

\* lines 225-230: a run of process_directory begins
StartRun ==
  /\ pc \in {"idle", "done"}
  /\ run < MaxRuns
  /\ run' = run + 1
  /\ idx' = 1
  /\ pc' = "loop"
  /\ UNCHANGED <<listing, dirs, files, log, tempoVars, midiVars, scoreVars>>

\* lines 232-269: one iteration of the loop over the listing
ExaminePair ==
  /\ pc = "loop"
  /\ idx <= Len(listing)
  /\ LET pair == listing[idx]
         checking == <<Entry("Checking", idx, run)>>
     IN IF ~pair.midi.present
        THEN /\ log' = log \o checking \o <<Entry("SkipNoMidi", idx, run)>>
             /\ idx' = idx + 1
             /\ UNCHANGED <<pc, dirs, files>>
        ELSE IF AlreadyExist(idx)
        THEN /\ log' = log \o checking \o <<Entry("SkipExists", idx, run)>>
             /\ idx' = idx + 1
             /\ UNCHANGED <<pc, dirs, files>>
        ELSE \E fail \in WriteChoices(pair) :
               LET r == TryBody(pair, fail)
                   head == log \o checking \o <<Entry("Processing", idx, run)>>
                           \o Retag(r.log, idx, run)
               IN /\ dirs' = dirs \cup {<<"xml", idx>>, <<"midi", idx>>}
                  /\ files' = files \cup {<<"xml", idx, n>> : n \in r.xml}
                                    \cup {<<"midi", idx, n>> : n \in r.midi}
                  /\ IF r.error = ""
                     THEN /\ log' = head \o <<Entry("FinishedProcessing", idx, run)>>
                          /\ idx' = idx + 1
                          /\ pc' = pc
                     ELSE IF Caught(r.error)
                     THEN /\ log' = head \o <<Entry("ErrorProcessing", idx, run)>>
                          /\ idx' = idx + 1
                          /\ pc' = pc
                     ELSE /\ log' = head
                          /\ idx' = idx
                          /\ pc' = "aborted"
  /\ UNCHANGED <<listing, run, tempoVars, midiVars, scoreVars>>

\* line 271
FinishRun ==
  /\ pc = "loop"
  /\ idx > Len(listing)
  /\ log' = Append(log, Entry("AllProcessed", 0, run))
  /\ pc' = "done"
  /\ UNCHANGED <<listing, idx, run, dirs, files, tempoVars, midiVars, scoreVars>>

NextDir == StartRun \/ ExaminePair \/ FinishRun

SpecDir == InitDir /\ [][NextDir]_vars

Logged(k, n, r) == \E i \in 1..Len(log) : log[i] = Entry(k, n, r)
LoggedInSomeRun(k, n) == \E i \in 1..Len(log) : log[i].kind = k /\ log[i].name = n

Count(kind, n) == Cardinality({f \in files : f[1] = kind /\ f[2] = n})

\* C4: for one split-point list both splitters produce the same number of
\* segments, and whenever the two counts differ the mismatch is reported.
C4_CountsAgreeOrReported ==
  \A n \in 1..Len(listing) :
    LoggedInSomeRun("FinishedProcessing", n) =>
      \/ Count("xml", n) = Count("midi", n)
      \/ LoggedInSomeRun("SegmentMismatch", n)
      \/ LoggedInSomeRun("Warning2048", n)
      \/ LoggedInSomeRun("ErrorWriting", n)

\* the pair's try body raises whatever the writer does
Raises(pair) == \A fail \in WriteChoices(pair) : TryBody(pair, fail).error # ""

\* C8: when a step of one pair raises, the error is logged for that pair and
\* every later pair is still examined; the run is never abandoned and ends
\* with every pair examined ('All files processed').
C8_ErrorsDoNotStopBatch ==
  /\ pc \in {"idle", "loop", "done"}
  /\ pc = "loop" => idx \in 1..(Len(listing) + 1)
  /\ pc = "done" => idx = Len(listing) + 1 /\ Logged("AllProcessed", 0, run)
  /\ \A n \in 1..Len(listing) :
       (pc \in {"loop", "done"} /\ n < idx) =>
         /\ Logged("Checking", n, run)
         /\ (Logged("Processing", n, run) /\ Raises(listing[n]))
              => Logged("ErrorProcessing", n, run)

\* a run that ended after a pair raised and a later pair was processed
C8_Witness ==
  /\ pc = "done"
  /\ \E n \in 1..Len(listing) : \E m \in (n + 1)..Len(listing) :
       /\ Logged("ErrorProcessing", n, run)
       /\ listing[n].score.corrupt = FALSE
       /\ Logged("FinishedProcessing", m, run)

\* C10: a pair is skipped as 'Segments already exist' only if an earlier run
\* completed both splitters for it without error; a pair that raised is
\* processed again on the next run.
C10_SkipOnlyAfterSuccess ==
  \A i \in 1..Len(log) :
    log[i].kind = "SkipExists" =>
      \E j \in 1..(i - 1) :
        log[j].kind = "FinishedProcessing" /\ log[j].name = log[i].name

====
